---- MODULE Spec2Model ----
(***************************************************************************)
(* Model of backend/main.py: the value formatter (format_value), the       *)
(* statement executor (execute_raw_sql) and the request handlers, against  *)
(* an engine reduced to its catalog and row counts.                        *)
(*                                                                         *)
(* Texts are sequences of one-character strings, so that stripping,        *)
(* escaping, parsing and re-formatting are computed character by           *)
(* character.                                                              *)
(***************************************************************************)
EXTENDS Integers, Sequences, FiniteSets, TLC

VARIABLES fval, fpath, fout, db, resp, rd

vars == <<fval, fpath, fout, db, resp, rd>>

(***************************************************************************)
(* Bounds                                                                  *)
(***************************************************************************)
MaxLen == 3          \* longest free-form string given to format_value
MaxPad == 1          \* most blanks put before / after a date-shaped string
MaxRows == 1         \* most rows a table holds

(***************************************************************************)
(* Texts                                                                   *)
(***************************************************************************)
Q == "'"
Alphabet == {Q, " ", "/", "a"}
Whitespace == {" "}
Digits == {"0", "1", "2", "3", "4", "5", "6", "7", "8", "9"}

DigitVal(c) == CASE c = "0" -> 0 [] c = "1" -> 1 [] c = "2" -> 2 [] c = "3" -> 3
                 [] c = "4" -> 4 [] c = "5" -> 5 [] c = "6" -> 6 [] c = "7" -> 7
                 [] c = "8" -> 8 [] c = "9" -> 9

DigitChar(n) == CASE n = 0 -> "0" [] n = 1 -> "1" [] n = 2 -> "2" [] n = 3 -> "3"
                  [] n = 4 -> "4" [] n = 5 -> "5" [] n = 6 -> "6" [] n = 7 -> "7"
                  [] n = 8 -> "8" [] n = 9 -> "9"

StrsUpTo(n) == UNION {[1..k -> Alphabet] : k \in 0..n}

Blanks(n) == [i \in 1..n |-> " "]

Contains(s, c) == \E i \in 1..Len(s) : s[i] = c

\* Python values reaching format_value: None, str, int, list and dict of str
VNull == [k |-> "null"]
VStr(s) == [k |-> "str", s |-> s]
VInt(n) == [k |-> "int", n |-> n]
VList(items) == [k |-> "list", items |-> items]
VDict(key, v) == [k |-> "dict", key |-> key, v |-> v]

(***************************************************************************)
(* str(), json.dumps(), str.strip(), str.replace()                         *)
(***************************************************************************)
RECURSIVE NatToStr(_)
NatToStr(n) == IF n < 10 THEN <<DigitChar(n)>>
               ELSE NatToStr(n \div 10) \o <<DigitChar(n % 10)>>

IntToStr(n) == IF n < 0 THEN <<"-">> \o NatToStr(0 - n) ELSE NatToStr(n)

RECURSIVE JsonEscape(_)
JsonEscape(s) ==
    IF s = <<>> THEN <<>>
    ELSE (IF Head(s) \in {"\"", "\\"} THEN <<"\\", Head(s)>> ELSE <<Head(s)>>)
         \o JsonEscape(Tail(s))

JsonStr(s) == <<"\"">> \o JsonEscape(s) \o <<"\"">>

RECURSIVE JsonItems(_)
JsonItems(items) ==
    IF items = <<>> THEN <<>>
    ELSE IF Len(items) = 1 THEN JsonStr(items[1])
    ELSE JsonStr(Head(items)) \o <<",", " ">> \o JsonItems(Tail(items))

JsonDumps(val) ==
    IF val.k = "list" THEN <<"[">> \o JsonItems(val.items) \o <<"]">>
    ELSE <<"{">> \o JsonStr(val.key) \o <<":", " ">> \o JsonStr(val.v) \o <<"}">>

PyStr(val) == CASE val.k = "str" -> val.s
                [] val.k = "int" -> IntToStr(val.n)
                [] val.k \in {"list", "dict"} -> JsonDumps(val)

RECURSIVE LStrip(_)
LStrip(s) == IF s # <<>> /\ Head(s) \in Whitespace THEN LStrip(Tail(s)) ELSE s

RECURSIVE RStrip(_)
RStrip(s) == IF s # <<>> /\ s[Len(s)] \in Whitespace
             THEN RStrip(SubSeq(s, 1, Len(s) - 1)) ELSE s

Strip(s) == RStrip(LStrip(s))

EscapeQuotesNone(s) == s

RECURSIVE EscapeQuotes(_)
EscapeQuotes(s) ==
    IF s = <<>> THEN <<>>
    ELSE (IF Head(s) = Q THEN <<Q, Q>> ELSE <<Head(s)>>) \o EscapeQuotes(Tail(s))

Quoted(s) == <<Q>> \o s \o <<Q>>

(***************************************************************************)
(* datetime.strptime(s, "%d/%m/%Y") and strftime("%Y-%m-%d")               *)
(***************************************************************************)
IsLeap(y) == (y % 4 = 0) /\ ((y % 100 # 0) \/ (y % 400 = 0))

DaysInMonthNoFebruary(y, m) == IF m \in {4, 6, 9, 11} THEN 30 ELSE 31

DaysInMonth(y, m) == IF m = 2 THEN (IF IsLeap(y) THEN 29 ELSE 28)
                     ELSE IF m \in {4, 6, 9, 11} THEN 30 ELSE 31

\* the directive patterns of _strptime: %d, %m (two-character branches), %Y
MatchDay2(a, b) == \/ a = "3" /\ b \in {"0", "1"}
                   \/ a \in {"1", "2"} /\ b \in Digits
                   \/ a = "0" /\ b \in Digits \ {"0"}
                   \/ a = " " /\ b \in Digits \ {"0"}

MatchMonth2(a, b) == \/ a = "1" /\ b \in {"0", "1", "2"}
                     \/ a = "0" /\ b \in Digits \ {"0"}

MatchYear4(s) == \A i \in 1..4 : s[i] \in Digits

Num2(a, b) == (IF a = " " THEN 0 ELSE 10 * DigitVal(a)) + DigitVal(b)
Num4(s) == 1000 * DigitVal(s[1]) + 100 * DigitVal(s[2]) + 10 * DigitVal(s[3]) + DigitVal(s[4])

NoDate == [ok |-> FALSE, y |-> 0, m |-> 0, d |-> 0]

\* s has 10 characters; the pattern is anchored at both ends, the year takes
\* exactly four characters and day and month at most two each, so a match
\* puts the slashes at positions 3 and 6
Strptime(s) ==
    IF /\ MatchDay2(s[1], s[2]) /\ s[3] = "/"
       /\ MatchMonth2(s[4], s[5]) /\ s[6] = "/"
       /\ MatchYear4(SubSeq(s, 7, 10))
    THEN LET d == Num2(s[1], s[2])
             m == Num2(s[4], s[5])
             y == Num4(SubSeq(s, 7, 10))
         IN IF y >= 1 /\ d <= DaysInMonth(y, m)
            THEN [ok |-> TRUE, y |-> y, m |-> m, d |-> d]
            ELSE NoDate
    ELSE NoDate

Pad2(n) == <<DigitChar(n \div 10), DigitChar(n % 10)>>
Pad4(n) == <<DigitChar(n \div 1000), DigitChar((n \div 100) % 10),
             DigitChar((n \div 10) % 10), DigitChar(n % 10)>>

Strftime(dt) == Pad4(dt.y) \o <<"-">> \o Pad2(dt.m) \o <<"-">> \o Pad2(dt.d)

(***************************************************************************)
(* format_value                                                            *)
(***************************************************************************)
NULL == <<"N", "U", "L", "L">>

IsNullishNoneOnly(val) == val.k = "null"

IsNullish(val) == val.k = "null" \/ (val.k = "str" /\ val.s = <<>>)

format_value(val) ==
    IF IsNullish(val) THEN [path |-> "null", out |-> NULL]
    ELSE LET str_val == Strip(PyStr(val))
         IN IF Contains(str_val, "/") /\ Len(str_val) = 10 /\ Strptime(str_val).ok
            THEN [path |-> "date", out |-> Quoted(Strftime(Strptime(str_val)))]
            ELSE [path |-> "generic", out |-> Quoted(EscapeQuotes(str_val))]

(***************************************************************************)
(* Requests                                                                *)
(***************************************************************************)
TableNames == {"t"}
ColNames == {"id", "a"}

NoFK == [present |-> FALSE]
FK(t, c) == [present |-> TRUE, table |-> t, column |-> c]

ColumnDef(n, ty, p, isfk, fk) ==
    [name |-> n, type |-> ty, isPrimary |-> p, isForeignKey |-> isfk, foreignKey |-> fk]

\* the column definitions a client sends: an integer id and a text column,
\* each flagged primary or not
PlainCols == {ColumnDef(n, IF n = "id" THEN "int" ELSE "TEXT", p, FALSE, NoFK) :
                n \in ColNames, p \in BOOLEAN}

ColLists == UNION {[1..k -> PlainCols] : k \in 0..2}

AddCols == PlainCols \cup
           {ColumnDef("a", "int", FALSE, isfk, FK(t, "id")) : isfk \in BOOLEAN, t \in TableNames}

\* Optional[int]
None == [some |-> FALSE]
Some(n) == [some |-> TRUE, v |-> n]
RowIds == {None, Some(0), Some(1)}

DataVals == {VNull, VStr(<<>>), VInt(5)}

\* Dict[str, Any] in insertion order: pairs with distinct keys
Entry(key, v) == [key |-> key, val |-> v]
DataMaps ==
    {<<>>}
    \cup {<<Entry(key, v)>> : key \in ColNames, v \in DataVals}
    \cup {m \in {<<Entry(k1, v1), Entry(k2, v2)>> :
                    k1 \in ColNames, k2 \in ColNames, v1 \in DataVals, v2 \in DataVals} :
            m[1].key # m[2].key}

(***************************************************************************)
(* The engine: catalog and row counts.  A statement either commits or is   *)
(* rejected with a message.                                                *)
(***************************************************************************)
NoTable == [exists |-> FALSE]
Table(cols, n) == [exists |-> TRUE, cols |-> cols, rows |-> n]

NoStmt == [kind |-> "none"]

Ok(d) == [ok |-> TRUE, msg |-> "", db |-> d]
Fail(d, m) == [ok |-> FALSE, msg |-> m, db |-> d]

Range(f) == {f[i] : i \in DOMAIN f}
NamesOf(cols) == {c.name : c \in Range(cols)}
HasPk(cols) == \E c \in Range(cols) : c.pk

EngineType(ty) == IF ty \in {"int", "SERIAL"} THEN "INTEGER" ELSE ty

\* the outcomes the engine can give to a statement in catalog state d
Exec(stmt, d) ==
    CASE stmt.kind = "CREATE" ->
           IF d[stmt.table].exists THEN {Fail(d, "relation already exists")}
           ELSE IF Cardinality(NamesOf(stmt.defs)) # Len(stmt.defs)
                THEN {Fail(d, "column specified more than once")}
           ELSE IF Cardinality({i \in DOMAIN stmt.defs : stmt.defs[i].pk}) > 1
                THEN {Fail(d, "multiple primary keys")}
           ELSE {Ok([d EXCEPT ![stmt.table] =
                       Table([i \in DOMAIN stmt.defs |->
                                [name |-> stmt.defs[i].name,
                                 type |-> EngineType(stmt.defs[i].type),
                                 pk |-> stmt.defs[i].pk]], 0)])}
      [] stmt.kind = "ALTER" ->
           IF ~d[stmt.table].exists THEN {Fail(d, "relation does not exist")}
           ELSE IF stmt.name \in NamesOf(d[stmt.table].cols)
                THEN {Fail(d, "column already exists")}
           ELSE IF stmt.pk /\ HasPk(d[stmt.table].cols)
                THEN {Fail(d, "multiple primary keys")}
           ELSE IF stmt.pk /\ d[stmt.table].rows > 0
                THEN {Fail(d, "column contains null values")}
           ELSE IF stmt.ref.present /\ ~d[stmt.ref.table].exists
                THEN {Fail(d, "relation does not exist")}
           ELSE IF stmt.ref.present
                   /\ ~\E c \in Range(d[stmt.ref.table].cols) : c.name = stmt.ref.column /\ c.pk
                THEN {Fail(d, "no unique constraint for referenced column")}
           ELSE {Ok([d EXCEPT ![stmt.table].cols =
                       Append(@, [name |-> stmt.name, type |-> EngineType(stmt.type),
                                  pk |-> stmt.pk])])}
      [] stmt.kind = "INSERT" ->
           IF ~d[stmt.table].exists THEN {Fail(d, "relation does not exist")}
           ELSE IF ~(Range(stmt.cols) \subseteq NamesOf(d[stmt.table].cols))
                THEN {Fail(d, "column does not exist")}
           ELSE {Fail(d, "value rejected")} \cup
                (IF d[stmt.table].rows < MaxRows
                 THEN {Ok([d EXCEPT ![stmt.table].rows = @ + 1])} ELSE {})
      [] stmt.kind = "UPDATE" ->
           IF ~d[stmt.table].exists THEN {Fail(d, "relation does not exist")}
           ELSE IF ~(({"id"} \cup {a.col : a \in Range(stmt.sets)})
                       \subseteq NamesOf(d[stmt.table].cols))
                THEN {Fail(d, "column does not exist")}
           ELSE {Fail(d, "value rejected"), Ok(d)}
      [] stmt.kind = "DROP" ->
           IF d[stmt.table].exists THEN {Ok([d EXCEPT ![stmt.table] = NoTable])}
           ELSE IF stmt.ifExists THEN {Ok(d)}
           ELSE {Fail(d, "table does not exist")}
      [] stmt.kind = "SELECT" ->
           IF d[stmt.table].exists THEN {Ok(d)}
           ELSE {Fail(d, "relation does not exist")}
      [] stmt.kind = "JOIN" ->
           IF ~d[stmt.left].exists \/ ~d[stmt.right].exists
           THEN {Fail(d, "relation does not exist")}
           ELSE IF stmt.leftKey \notin NamesOf(d[stmt.left].cols)
                   \/ stmt.rightKey \notin NamesOf(d[stmt.right].cols)
                THEN {Fail(d, "column does not exist")}
           ELSE {Ok(d)}

(***************************************************************************)
(* Responses                                                               *)
(***************************************************************************)
NoSnap == [present |-> FALSE]

\* status and text of the answer, the statement handed to the engine (NoStmt
\* when none was) and the engine's error message ("" when it reported none)
Response(op, req, status, text, stmt, err) ==
    [op |-> op, req |-> req, status |-> status, text |-> text,
     stmt |-> stmt, engineError |-> err, snap |-> NoSnap]

NoResp == Response("none", None, 0, "", NoStmt, "")

\* execute_raw_sql: an engine failure becomes HTTPException(400, str(e))
execute_raw_sql(op, req, stmt, o, okText) ==
    IF o.ok THEN Response(op, req, 200, okText, stmt, "")
    ELSE Response(op, req, 400, o.msg, stmt, o.msg)

\* a statement run outside execute_raw_sql: the failure is not caught by the
\* handler and the framework answers 500
Unhandled(op, req, stmt, o) ==
    Response(op, req, 500, "Internal Server Error", stmt, o.msg)

Idle == [pc |-> "idle"]

ApiInit ==
    /\ db = [t \in TableNames |-> NoTable]
    /\ resp = NoResp
    /\ rd = Idle

(***************************************************************************)
(* Inputs of format_value                                                  *)
(***************************************************************************)
DayStrs == {<<"2", "1">>, <<"2", "9">>, <<"3", "1">>, <<"0", "0">>, <<"2", Q>>}
MonStrs == {<<"1", "2">>, <<"0", "2">>, <<"0", "4">>, <<"1", "3">>}
YearStrs == {<<"1", "9", "9", "9">>, <<"2", "0", "0", "0">>, <<"0", "0", "0", "0">>}
Seps == {"/", "-"}

\* ten characters shaped like a date, day first or year first, with blanks around
DateLike ==
    {Blanks(l) \o a \o <<s1>> \o b \o <<s2>> \o c \o Blanks(r) :
        l \in 0..MaxPad, r \in 0..MaxPad, s1 \in Seps, s2 \in Seps,
        a \in DayStrs, b \in MonStrs, c \in YearStrs}
    \cup {c \o <<s1>> \o b \o <<s1>> \o a : s1 \in Seps,
          a \in DayStrs, b \in MonStrs, c \in YearStrs}

ItemStrs == {<<"a">>, <<Q>>, <<"\"", " ">>}

Values ==
    {VNull}
    \cup {VStr(s) : s \in StrsUpTo(MaxLen) \cup DateLike}
    \cup {VInt(n) : n \in {0, 5, -12}}
    \cup {VList(items) : items \in UNION {[1..k -> ItemStrs] : k \in 0..2}}
    \cup {VDict(key, v) : key \in {<<"k">>}, v \in ItemStrs}

(***************************************************************************)
(* Specification of the formatter alone: one value in, one literal out     *)
(***************************************************************************)
FmtInit ==
    /\ fval \in Values
    /\ fpath = "pending"
    /\ fout = <<>>
    /\ ApiInit

FormatCall ==
    /\ fpath = "pending"
    /\ fpath' = format_value(fval).path
    /\ fout' = format_value(fval).out
    /\ UNCHANGED <<fval, db, resp, rd>>

FmtNext == FormatCall

SpecFmt == FmtInit /\ [][FmtNext]_vars

(***************************************************************************)
(* Properties of format_value                                              *)
(***************************************************************************)
\* the text between the first and the last non-blank character
Trimmed(s) ==
    LET keep == {i \in 1..Len(s) : s[i] \notin Whitespace}
    IN IF keep = {} THEN <<>>
       ELSE SubSeq(s, CHOOSE i \in keep : \A j \in keep : i <= j,
                      CHOOSE i \in keep : \A j \in keep : i >= j)

IsQuotedLiteral(lit) == Len(lit) >= 2 /\ lit[1] = Q /\ lit[Len(lit)] = Q

Inner(lit) == SubSeq(lit, 2, Len(lit) - 1)

\* every quote of s is one of an adjacent pair
RECURSIVE WellEscaped(_)
WellEscaped(s) ==
    IF s = <<>> THEN TRUE
    ELSE IF Head(s) = Q
         THEN Len(s) >= 2 /\ s[2] = Q /\ WellEscaped(SubSeq(s, 3, Len(s)))
         ELSE WellEscaped(Tail(s))

\* what the engine reads from the inside of a literal: a doubled quote is one quote
RECURSIVE Unescape(_)
Unescape(s) ==
    IF s = <<>> THEN <<>>
    ELSE IF Head(s) = Q /\ Len(s) >= 2 /\ s[2] = Q
         THEN <<Q>> \o Unescape(SubSeq(s, 3, Len(s)))
         ELSE <<Head(s)>> \o Unescape(Tail(s))

Decode(lit) == Unescape(Inner(lit))

FmtDone == fpath # "pending"

QuoteString == fval.k = "str" /\ Contains(fval.s, Q)

\* C1 as stated: for a string s with a single quote, format_value(s) is a
\* quoted literal that decodes to exactly s, surrounding whitespace included
C1_DecodesToExactlyS ==
    (FmtDone /\ QuoteString) =>
        /\ IsQuotedLiteral(fout) /\ WellEscaped(Inner(fout))
        /\ Decode(fout) = fval.s

\* C1 amended: for a string s with a single quote, format_value(s) is a
\* quoted literal that decodes to s without its leading and trailing whitespace
C1_DecodesToTrimmedS ==
    (FmtDone /\ QuoteString) =>
        /\ IsQuotedLiteral(fout) /\ WellEscaped(Inner(fout))
        /\ Decode(fout) = Trimmed(fval.s)

C1_Witness ==
    /\ FmtDone /\ QuoteString
    /\ fval.s[1] = " " /\ Len(Decode(fout)) = 2 /\ Decode(fout)[2] = Q

\* C4: format_value always yields one literal token: NULL exactly for null
\* and the empty string, otherwise a quoted text whose inner quotes are doubled
C4_OneLiteralToken ==
    FmtDone =>
        /\ (fout = NULL) <=> (fval = VNull \/ fval = VStr(<<>>))
        /\ (fout # NULL) => (IsQuotedLiteral(fout) /\ WellEscaped(Inner(fout)))

C4_Witness ==
    /\ FmtDone /\ fval.k = "list"
    /\ \E i \in 2..(Len(fout) - 1) : fout[i] = Q

\* a text of the form DD/MM/YYYY naming a day that exists
ValidDMY(t) ==
    /\ Len(t) = 10 /\ t[3] = "/" /\ t[6] = "/"
    /\ \A i \in {1, 2, 4, 5, 7, 8, 9, 10} : t[i] \in Digits
    /\ LET d == 10 * DigitVal(t[1]) + DigitVal(t[2])
           m == 10 * DigitVal(t[4]) + DigitVal(t[5])
           y == Num4(SubSeq(t, 7, 10))
       IN /\ y >= 1 /\ m \in 1..12 /\ d >= 1
          /\ d <= (CASE m = 2 -> (IF y % 4 = 0 /\ (y % 100 # 0 \/ y % 400 = 0) THEN 29 ELSE 28)
                     [] m \in {4, 6, 9, 11} -> 30
                     [] OTHER -> 31)

DateCond(t) == Contains(t, "/") /\ Len(t) = 10 /\ ValidDMY(t)

Rearranged(t) ==
    <<Q>> \o SubSeq(t, 7, 10) \o <<"-">> \o SubSeq(t, 4, 5) \o <<"-">> \o SubSeq(t, 1, 2) \o <<Q>>

TextOf(val) == IF val.k = "null" THEN <<"N", "o", "n", "e">> ELSE PyStr(val)

\* C5 as stated: a date literal is emitted only for a value whose text has a
\* slash, is exactly 10 characters long and is a valid DD/MM/YYYY date; every
\* other value is emitted as a quoted string with its text unchanged
C5_DateOnlyForTenCharText ==
    FmtDone =>
        LET t == TextOf(fval)
        IN /\ (fpath = "date") => DateCond(t)
           /\ (~DateCond(t)) => (/\ fpath = "generic"
                                 /\ IsQuotedLiteral(fout)
                                 /\ WellEscaped(Inner(fout))
                                 /\ Decode(fout) = t)

\* C5 amended: the test is made on the text without its leading and trailing
\* whitespace; a value that is neither null nor the empty string gets a date
\* literal YYYY-MM-DD exactly when that trimmed text has a slash, is 10
\* characters long and is a valid DD/MM/YYYY date, and otherwise is emitted as
\* a quoted string holding the trimmed text
C5_DateOnlyForTenCharTrimmedText ==
    (FmtDone /\ fval # VNull /\ fval # VStr(<<>>)) =>
        LET t == Trimmed(TextOf(fval))
        IN /\ (fpath = "date") <=> DateCond(t)
           /\ (fpath = "date") => fout = Rearranged(t)
           /\ (fpath # "date") => (/\ fpath = "generic"
                                   /\ IsQuotedLiteral(fout)
                                   /\ WellEscaped(Inner(fout))
                                   /\ Decode(fout) = t)

C5_Witness ==
    /\ fpath = "date" /\ Len(fval.s) = 12
    /\ fout = <<Q, "2", "0", "0", "0", "-", "0", "2", "-", "2", "9", Q>>

(***************************************************************************)
(* Request handlers                                                        *)
(***************************************************************************)
Upper(ty) == IF ty = "int" THEN "INT" ELSE ty
ContainsINT(ty) == ty \in {"INT", "BIGINT", "POINT"}

ColDefNoPkSuffix(col) ==
    IF col.isPrimary /\ ContainsINT(Upper(col.type))
    THEN [name |-> col.name, type |-> "SERIAL", pk |-> TRUE]
    ELSE [name |-> col.name, type |-> col.type, pk |-> FALSE]

\* def_str of one requested column
ColDef(col) ==
    IF col.isPrimary
    THEN IF ContainsINT(Upper(col.type))
         THEN [name |-> col.name, type |-> "SERIAL", pk |-> TRUE]
         ELSE [name |-> col.name, type |-> col.type, pk |-> TRUE]
    ELSE [name |-> col.name, type |-> col.type, pk |-> FALSE]

CreateStmt(req) ==
    [kind |-> "CREATE", table |-> req.table_name,
     defs |-> IF req.columns = <<>>
              THEN <<[name |-> "id", type |-> "SERIAL", pk |-> TRUE]>>
              ELSE [i \in DOMAIN req.columns |-> ColDef(req.columns[i])]]

create_table ==
    \E t \in TableNames, columns \in ColLists :
        LET req == [table_name |-> t, columns |-> columns]
            sql == CreateStmt(req)
        IN \E o \in Exec(sql, db) :
            /\ db' = o.db
            /\ resp' = execute_raw_sql("create", req, sql, o, "Table created successfully.")
            /\ UNCHANGED <<fval, fpath, fout, rd>>

AlterStmt(req) ==
    [kind |-> "ALTER", table |-> req.table_name,
     name |-> req.column.name, type |-> req.column.type,
     pk |-> req.column.isPrimary,
     ref |-> IF req.column.isForeignKey /\ req.column.foreignKey.present
             THEN req.column.foreignKey ELSE NoFK]

add_column ==
    \E t \in TableNames, col \in AddCols :
        LET req == [table_name |-> t, column |-> col]
            sql == AlterStmt(req)
        IN \E o \in Exec(sql, db) :
            /\ db' = o.db
            /\ resp' = execute_raw_sql("add_column", req, sql, o, "Column added.")
            /\ UNCHANGED <<fval, fpath, fout, rd>>

KeepsEmptyString(e) == e.val.k # "null"

\* the filter of clean_data: v != '' and v is not None
Keeps(e) == ~(e.val.k = "str" /\ e.val.s = <<>>) /\ e.val.k # "null"

clean_data(data) == SelectSeq(data, Keeps)

InsertStmt(t, clean) ==
    [kind |-> "INSERT", table |-> t,
     cols |-> [i \in DOMAIN clean |-> clean[i].key],
     vals |-> [i \in DOMAIN clean |-> format_value(clean[i].val).out]]

insert_row ==
    \E t \in TableNames, data \in DataMaps, id \in {None, Some(1)} :
        LET req == [table_name |-> t, data |-> data, id |-> id]
            clean == clean_data(data)
            sql == InsertStmt(t, clean)
        IN IF clean = <<>>
           THEN /\ resp' = Response("insert", req, 400, "No data provided", NoStmt, "")
                /\ UNCHANGED <<fval, fpath, fout, db, rd>>
           ELSE \E o \in Exec(sql, db) :
                /\ db' = o.db
                /\ resp' = execute_raw_sql("insert", req, sql, o, "Row inserted.")
                /\ UNCHANGED <<fval, fpath, fout, rd>>

\* not req.id: None and 0 are both false
NotId(id) == ~id.some \/ id.v = 0

NotIdKey(e) == e.key # "id"

set_clauses(data) ==
    LET kept == SelectSeq(data, NotIdKey)
    IN [i \in DOMAIN kept |-> [col |-> kept[i].key, lit |-> format_value(kept[i].val).out]]

UpdateStmt(req) ==
    [kind |-> "UPDATE", table |-> req.table_name,
     sets |-> set_clauses(req.data), whereId |-> req.id.v]

update_row ==
    \E t \in TableNames, data \in DataMaps, id \in RowIds :
        LET req == [table_name |-> t, data |-> data, id |-> id]
        IN IF NotId(id)
           THEN /\ resp' = Response("update", req, 400, "Row ID is required for updates.",
                                    NoStmt, "")
                /\ UNCHANGED <<fval, fpath, fout, db, rd>>
           ELSE IF set_clauses(data) = <<>>
           THEN /\ resp' = Response("update", req, 200, "No data to update.", NoStmt, "")
                /\ UNCHANGED <<fval, fpath, fout, db, rd>>
           ELSE \E o \in Exec(UpdateStmt(req), db) :
                /\ db' = o.db
                /\ resp' = execute_raw_sql("update", req, UpdateStmt(req), o, "Row updated.")
                /\ UNCHANGED <<fval, fpath, fout, rd>>

JoinStmt(req) ==
    [kind |-> "JOIN", left |-> req.leftTable, right |-> req.rightTable,
     leftKey |-> req.leftKey, rightKey |-> req.rightKey]

\* the statement is run on a connection of the handler's own, outside
\* execute_raw_sql
query_join ==
    \E l \in TableNames, r \in TableNames, lk \in ColNames, rk \in ColNames :
        LET req == [leftTable |-> l, rightTable |-> r, leftKey |-> lk, rightKey |-> rk]
            sql == JoinStmt(req)
        IN \E o \in Exec(sql, db) :
            /\ resp' = IF o.ok THEN Response("join", req, 200, "rows", sql, "")
                       ELSE Unhandled("join", req, sql, o)
            /\ UNCHANGED <<fval, fpath, fout, db, rd>>

DropStmtPlain(t) == [kind |-> "DROP", table |-> t, ifExists |-> FALSE]

DropStmt(t) == [kind |-> "DROP", table |-> t, ifExists |-> TRUE]

ExistingTables(d) == {t \in TableNames : d[t].exists}

\* the answer of a drop also records the tables that existed before it
drop_table ==
    \E t \in TableNames :
        LET req == [table_name |-> t, before |-> ExistingTables(db)]
            sql == DropStmt(t)
        IN \E o \in Exec(sql, db) :
            /\ db' = o.db
            /\ resp' = execute_raw_sql("drop", req, sql, o, "Table dropped.")
            /\ UNCHANGED <<fval, fpath, fout, rd>>

(***************************************************************************)
(* get_table_data: the inspector's queries and the row SELECT are separate *)
(* round trips to the engine, so other requests can commit between them    *)
(***************************************************************************)
has_table(d, t) == d[t].exists

\* pk_constraint.get("constrained_columns", [])
get_pk_constraint(d, t) == SelectSeq([i \in DOMAIN d[t].cols |-> d[t].cols[i]],
                                     LAMBDA c : c.pk)

pk_columns(d, t) == LET pk == get_pk_constraint(d, t) IN [i \in DOMAIN pk |-> pk[i].name]

get_columns(d, t) == d[t].cols

col_data(col, pks) ==
    [name |-> col.name, type |-> col.type, isPrimary |-> col.name \in Range(pks)]

columns_of(d, t, pks) == [i \in DOMAIN get_columns(d, t) |-> col_data(get_columns(d, t)[i], pks)]

Snapshot(t, columns, rows) ==
    [present |-> TRUE, id |-> t, name |-> t, columns |-> columns, rows |-> rows]

ReadError(t, status, text, stmt, err) ==
    Response("read", [table_name |-> t], status, text, stmt, err)

ReadCheck ==
    /\ rd.pc = "idle"
    /\ \E t \in TableNames :
        IF ~has_table(db, t)
        THEN /\ resp' = ReadError(t, 404, "Table not found", NoStmt, "")
             /\ UNCHANGED <<fval, fpath, fout, db, rd>>
        ELSE /\ rd' = [pc |-> "pk", table |-> t]
             /\ UNCHANGED <<fval, fpath, fout, db, resp>>

\* on a table that is gone the inspector raises NoSuchTableError or, in
\* dialects that answer from an empty catalog query, reports no constraint
ReadPk ==
    /\ rd.pc = "pk"
    /\ IF has_table(db, rd.table)
       THEN /\ rd' = [pc |-> "cols", table |-> rd.table, pks |-> pk_columns(db, rd.table)]
            /\ UNCHANGED <<fval, fpath, fout, db, resp>>
       ELSE \/ /\ rd' = Idle
               /\ resp' = ReadError(rd.table, 500, "Internal Server Error", NoStmt,
                                    "NoSuchTableError")
               /\ UNCHANGED <<fval, fpath, fout, db>>
            \/ /\ rd' = [pc |-> "cols", table |-> rd.table, pks |-> <<>>]
               /\ UNCHANGED <<fval, fpath, fout, db, resp>>

ReadCols ==
    /\ rd.pc = "cols"
    /\ IF has_table(db, rd.table)
       THEN /\ rd' = [pc |-> "select", table |-> rd.table,
                      columns |-> columns_of(db, rd.table, rd.pks)]
            /\ UNCHANGED <<fval, fpath, fout, db, resp>>
       ELSE /\ rd' = Idle
            /\ resp' = ReadError(rd.table, 500, "Internal Server Error", NoStmt,
                                 "NoSuchTableError")
            /\ UNCHANGED <<fval, fpath, fout, db>>

SelectStmt(t) == [kind |-> "SELECT", table |-> t, limit |-> 100]

ReadSelect ==
    /\ rd.pc = "select"
    /\ LET sql == SelectStmt(rd.table)
       IN \E o \in Exec(sql, db) :
            /\ resp' = IF o.ok
                       THEN [Response("read", [table_name |-> rd.table], 200, "", sql, "")
                               EXCEPT !.snap = Snapshot(rd.table, rd.columns,
                                                        db[rd.table].rows)]
                       ELSE Unhandled("read", [table_name |-> rd.table], sql, o)
            /\ rd' = Idle
            /\ UNCHANGED <<fval, fpath, fout, db>>

(***************************************************************************)
(* Specification of the API                                                *)
(***************************************************************************)
Init ==
    /\ fval = VNull
    /\ fpath = "pending"
    /\ fout = <<>>
    /\ ApiInit

Next ==
    \/ create_table
    \/ add_column
    \/ insert_row
    \/ update_row
    \/ query_join
    \/ drop_table
    \/ ReadCheck
    \/ ReadPk
    \/ ReadCols
    \/ ReadSelect

Spec == Init /\ [][Next]_vars

(***************************************************************************)
(* Properties of the handlers                                              *)
(***************************************************************************)
IsEmptyValue(v) == v = VNull \/ v = VStr(<<>>)

NonEmptyEntries(data) == SelectSeq(data, LAMBDA e : ~IsEmptyValue(e.val))

\* C2: insert_row drops the entries whose value is "" or null and sends an
\* INSERT naming exactly the remaining columns in request order with one
\* formatted value each; with nothing left it answers 400 and sends nothing
C2_InsertSendsRemainingColumns ==
    (resp.op = "insert") =>
        LET kept == NonEmptyEntries(resp.req.data)
        IN IF kept = <<>>
           THEN resp.status = 400 /\ resp.stmt = NoStmt /\ resp.engineError = ""
           ELSE /\ resp.stmt.kind = "INSERT"
                /\ resp.stmt.table = resp.req.table_name
                /\ resp.stmt.cols = [i \in DOMAIN kept |-> kept[i].key]
                /\ DOMAIN resp.stmt.vals = DOMAIN kept
                /\ \A i \in DOMAIN kept :
                     /\ IsQuotedLiteral(resp.stmt.vals[i])
                     /\ Decode(resp.stmt.vals[i]) = Trimmed(TextOf(kept[i].val))

C2_Witness ==
    /\ resp.op = "insert" /\ resp.status = 200
    /\ Len(resp.req.data) = 2 /\ resp.req.data[1].val = VStr(<<>>)
    /\ resp.stmt.cols = <<"a">>

C2_WitnessNothingLeft ==
    /\ resp.op = "insert" /\ resp.status = 400
    /\ Len(resp.req.data) = 2 /\ resp.stmt = NoStmt

\* C3: update_row answers 400 without building or sending a statement
\* exactly when the request carries no row id; a request with an integer id,
\* whatever its value, is not rejected for a missing id
C3_RejectedExactlyWithoutId ==
    (resp.op = "update") =>
        ((resp.status = 400 /\ resp.stmt = NoStmt) <=> ~resp.req.id.some)

NonIdEntries(data) == SelectSeq(data, LAMBDA e : e.key # "id")

UpdateAsClaimed ==
    LET kept == NonIdEntries(resp.req.data)
    IN IF kept = <<>>
       THEN resp.status = 200 /\ resp.stmt = NoStmt /\ resp.engineError = ""
       ELSE /\ resp.stmt.kind = "UPDATE"
            /\ resp.stmt.table = resp.req.table_name
            /\ resp.stmt.whereId = resp.req.id.v
            /\ DOMAIN resp.stmt.sets = DOMAIN kept
            /\ \A i \in DOMAIN kept :
                 /\ resp.stmt.sets[i].col = kept[i].key
                 /\ IF IsEmptyValue(kept[i].val)
                    THEN resp.stmt.sets[i].lit = NULL
                    ELSE /\ IsQuotedLiteral(resp.stmt.sets[i].lit)
                         /\ Decode(resp.stmt.sets[i].lit) = Trimmed(TextOf(kept[i].val))

\* C10: for an update request with a row id, update_row builds one SET clause
\* per entry whose key is not id (null and "" as col = NULL) and sends one
\* UPDATE with WHERE id = the request id; with no such entry it answers
\* success and sends nothing
C10_UpdateWithRowId ==
    (resp.op = "update" /\ resp.req.id.some) => UpdateAsClaimed

\* the same for the row ids that pass the test `not req.id`
UpdateWithNonZeroRowId ==
    (resp.op = "update" /\ resp.req.id.some /\ resp.req.id.v # 0) => UpdateAsClaimed

\* C6: every failure the engine reports for a statement, in any handler that
\* runs one, reaches the client as a 400 carrying the engine's message
C6_EngineFailureIs400 ==
    (resp.stmt # NoStmt /\ resp.engineError # "") =>
        (resp.status = 400 /\ resp.text = resp.engineError)

\* the same for the handlers that run their statement through execute_raw_sql
EngineFailureIs400ThroughExecutor ==
    (resp.op \in {"create", "add_column", "insert", "update", "drop"}
        /\ resp.engineError # "") =>
        (resp.status = 400 /\ resp.text = resp.engineError)

\* C7: get_table_data answers with a snapshot or with 404, also when the
\* table is dropped between the existence check and the row SELECT
C7_SnapshotOrNotFound ==
    (resp.op = "read") =>
        \/ resp.status = 200 /\ resp.snap.present
        \/ resp.status = 404

\* C8: drop_table succeeds whether or not the table exists; afterwards the
\* table is absent and no other table has appeared or disappeared
C8_DropIdempotent ==
    (resp.op = "drop") =>
        /\ resp.status = 200 /\ resp.engineError = ""
        /\ ~db[resp.req.table_name].exists
        /\ ExistingTables(db) = resp.req.before \ {resp.req.table_name}

C8_Witness ==
    /\ resp.op = "drop" /\ resp.status = 200
    /\ resp.req.table_name \notin resp.req.before

\* the names get_table_data reports with isPrimary, read from catalog d
ReportedPk(d, t) ==
    LET columns == columns_of(d, t, pk_columns(d, t))
        flagged == SelectSeq(columns, LAMBDA c : c.isPrimary)
    IN [i \in DOMAIN flagged |-> flagged[i].name]

RequestedPk(columns) ==
    LET flagged == SelectSeq(columns, LAMBDA c : c.isPrimary)
    IN [i \in DOMAIN flagged |-> flagged[i].name]

====
